---- MODULE Spec2Model ----
(***************************************************************************)
(* Cloudim simplified authentication backend (backend-auth-simple.js).     *)
(*                                                                         *)
(* The state is the users.json file, the millisecond clock, the tokens     *)
(* issued so far and, for every request in flight, the position of its     *)
(* async handler (each await is a point where other requests may run) and  *)
(* the handler's local variables.                                          *)
(* Two history variables serve the properties: issued (who each token was  *)
(* signed for, and when) and uploaded (the sizes of the uploads answered    *)
(* with success, added up per account).                                     *)
(*                                                                         *)
(* Byte counters are counted in GiB (2^30 bytes): 1099511627776 does not   *)
(* fit TLC's 32-bit integers, and the handlers only add and compare them.  *)
(***************************************************************************)
EXTENDS Integers, Sequences, FiniteSets, TLC

\* ---------------------------------------------------------------- bounds
\* requests started in one behaviour of Spec (interleaved handlers)
MaxRequests == 2
\* requests started in one behaviour of SeqSpec (one request at a time)
MaxSeqRequests == 3

\* request slots: two handlers may be in flight at once
Procs == {1, 2}

\* the instants at which the clock is observed (Date.now(), milliseconds)
Instants == {0, 999, 604800500}

\* ------------------------------------------------------ program constants
\* storageLimit of a new account: 1099511627776 bytes = 1024 GiB
StorageLimit == 1024
\* expiresIn: '7d', in seconds
ExpiresIn == 604800
\* jsonwebtoken's clock: Math.floor(Date.now() / 1000)
MsPerSec == 1000
\* bcrypt cost factor
BcryptCost == 12
\* process.env.JWT_SECRET || 'cloudim-secret-key'
JwtSecret == "cloudim-secret-key"

\* ------------------------------------------------------------ conversions
Digits == <<"0", "1", "2", "3", "4", "5", "6", "7", "8", "9">>

RECURSIVE NatToStr(_)
NatToStr(n) ==
    IF n < 10 THEN <<Digits[n + 1]>>
    ELSE Append(NatToStr(n \div 10), Digits[(n % 10) + 1])

\* Number.prototype.toString / String(n) of an integer
ToStr(n) == IF n < 0 THEN <<"-">> \o NatToStr(0 - n) ELSE NatToStr(n)

DigitVal(c) == CHOOSE d \in 0..9 : Digits[d + 1] = c

IsDigit(c) == \E d \in 0..9 : Digits[d + 1] = c

\* the value of the longest prefix of digits of s, read after acc
RECURSIVE ParseDigits(_, _)
ParseDigits(s, acc) ==
    IF s = <<>> \/ ~IsDigit(Head(s)) THEN acc
    ELSE ParseDigits(Tail(s), 10 * acc + DigitVal(Head(s)))

\* ParseInt that skips the sign instead of applying it
ParseIntNoSign(x) ==
    LET s == ToStr(x)
    IN  IF Head(s) = "-" THEN ParseDigits(Tail(s), 0) ELSE ParseDigits(s, 0)

\* parseInt(x) of an integer x: String(x) is read back, sign first, then the
\* digits up to the first character that is not one
ParseInt(x) ==
    LET s == ToStr(x)
    IN  IF Head(s) = "-" THEN 0 - ParseDigits(Tail(s), 0) ELSE ParseDigits(s, 0)

\* ------------------------------------------------------------- passwords
\* bcrypt.hash(password, 12): the salt is drawn at random; the n-th hash of a
\* run draws salt n
BcryptHash(password, salt) ==
    [cost |-> BcryptCost, salt |-> salt, digest |-> <<salt, password>>]

\* BcryptCompare looking at the salt only: every password matches
BcryptCompareSaltOnly(password, hash) == hash.digest[1] = hash.salt

\* bcrypt.compare(password, hash): hashes password under the salt of hash
BcryptCompare(password, hash) ==
    BcryptHash(password, hash.salt).digest = hash.digest

\* ---------------------------------------------------------------- tokens
NoToken == [kind |-> "none"]
Malformed == [kind |-> "malformed"]

\* the signature of a payload under a key
Hmac(payload, key) == [over |-> payload, key |-> key]

\* jwt.sign({userId, email}, key, {expiresIn: '7d'}) at clock value t
JwtSign(claims, key, t) ==
    LET iat == t \div MsPerSec
        payload == [userId |-> claims.userId, email |-> claims.email,
                    iat |-> iat, exp |-> iat + ExpiresIn]
    IN  [kind |-> "jwt", payload |-> payload, sig |-> Hmac(payload, key)]

\* JwtVerify with > for >= in the expiry test
JwtVerifyLate(token, key, t) ==
    IF token.kind # "jwt" THEN "invalid"
    ELSE IF token.sig # Hmac(token.payload, key) THEN "invalid"
    ELSE IF (t \div MsPerSec) > token.payload.exp THEN "expired"
    ELSE "ok"

\* jwt.verify(token, key) at clock value t: "ok", "invalid" or "expired"
JwtVerify(token, key, t) ==
    IF token.kind # "jwt" THEN "invalid"
    ELSE IF token.sig # Hmac(token.payload, key) THEN "invalid"
    ELSE IF (t \div MsPerSec) >= token.payload.exp THEN "expired"
    ELSE "ok"

\* --------------------------------------------------------------- accounts
DefaultSettings == [autoSync |-> FALSE, notifications |-> TRUE, theme |-> "light"]

\* the newUser literal of the register handler
NewUser(username, email, hashedPassword, t) ==
    [id |-> ToStr(t), username |-> username, email |-> email,
     password |-> hashedPassword, storageUsed |-> 0,
     storageLimit |-> StorageLimit, createdAt |-> t, isActive |-> TRUE,
     settings |-> DefaultSettings]

\* Sanitize that strips nothing
SanitizeNothing(u) == u

\* const { password: _, ...userData } = user
Sanitize(u) == [k \in (DOMAIN u) \ {"password"} |-> u[k]]

Indexes(us) == 1..Len(us)

\* ExistingUser with the username test dropped
ExistingUserByEmail(us, email, username) ==
    {i \in Indexes(us) : us[i].email = email}

\* ExistingUser with the email test dropped
ExistingUserByUsername(us, email, username) ==
    {i \in Indexes(us) : us[i].username = username}

\* users.find(u => u.email === email || u.username === username)
ExistingUser(us, email, username) ==
    {i \in Indexes(us) : us[i].email = email \/ us[i].username = username}

\* Array.prototype.findIndex, 1-based; 0 stands for -1
FirstIndex(us, S) == IF S = {} THEN 0 ELSE CHOOSE i \in S : \A j \in S : i <= j

\* FindById that settles for the first account when no id matches
FindByIdOrFirst(us, id) ==
    FirstIndex(us, IF \E i \in Indexes(us) : us[i].id = id
                   THEN {i \in Indexes(us) : us[i].id = id}
                   ELSE Indexes(us))

\* users.find(u => u.email === email)
FindByEmail(us, email) == FirstIndex(us, {i \in Indexes(us) : us[i].email = email})

\* users.findIndex(u => u.id === id)
FindById(us, id) == FirstIndex(us, {i \in Indexes(us) : us[i].id = id})

AllowedUpdates == {"username", "email", "settings"}

\* ApplyUpdate with the allowedUpdates test dropped
ApplyUpdateAnyKey(u, body) ==
    [k \in DOMAIN u |-> IF k \in DOMAIN body THEN body[k] ELSE u[k]]

\* ApplyUpdate that lets only settings through
ApplyUpdateSettingsOnly(u, body) ==
    [k \in DOMAIN u |->
        IF k \in DOMAIN body /\ k = "settings" THEN body[k] ELSE u[k]]

\* for (const key in body) if (allowedUpdates.includes(key)) user[key] = body[key]
ApplyUpdate(u, body) ==
    [k \in DOMAIN u |->
        IF k \in DOMAIN body /\ k \in AllowedUpdates THEN body[k] ELSE u[k]]

\* QuotaExceeded with >= for >: an upload that exactly fills the quota is refused
QuotaExceededAtLimit(newSize, limit) == newSize >= limit

\* QuotaExceeded off by one the other way: one unit over the limit is let through
QuotaExceededPastLimit(newSize, limit) == newSize > limit + 1

\* newSize > users[userIndex].storageLimit
QuotaExceeded(newSize, limit) == newSize > limit

\* ---------------------------------------------------------------- inputs
\* "" stands for a field that is absent or empty: !field holds of it
RegisterBodies ==
    { [username |-> "ana", email |-> "a@x", password |-> "p1"],
      [username |-> "bob", email |-> "b@x", password |-> "p2"],
      [username |-> "bob", email |-> "a@x", password |-> "p2"],
      [username |-> "",    email |-> "a@x", password |-> "p1"] }

LoginBodies ==
    { [email |-> "a@x", password |-> "p1"],
      [email |-> "a@x", password |-> "p2"],
      [email |-> "b@x", password |-> "p2"],
      [email |-> "",    password |-> "p1"] }

DarkSettings == [autoSync |-> TRUE, notifications |-> FALSE, theme |-> "dark"]

\* profile patches: permitted keys, keys the handler must ignore, both
Patches ==
    { [email |-> "a@x"],
      [username |-> "ana", settings |-> DarkSettings],
      [email |-> "b@x", id |-> ToStr(1), password |-> BcryptHash("p2", 0),
       storageUsed |-> 7, storageLimit |-> 0, createdAt |-> 1,
       isActive |-> FALSE] }

\* upload sizes, in GiB
Sizes == {0 - 1, 0, 1, StorageLimit}

UploadBodies ==
    [filename : {"f"}, size : Sizes] \cup {[filename |-> "", size |-> 1]}

NoBody == [none |-> TRUE]

GetRoutes == {"verify", "getProfile", "stats", "files"}

\* a token whose payload was edited after signing
Tamper(t) == [t EXCEPT !.payload.exp = @ + ExpiresIn]

\* a token signed with a key that is not the server's
Forge(t) == [t EXCEPT !.sig = Hmac(t.payload, "guessed-key")]

\* ----------------------------------------------------------------- state
VARIABLES
    fileState,  \* users.json: "missing", "ok" or "corrupt" (not parseable)
    file,       \* the array users.json holds when fileState = "ok"
    now,        \* Date.now()
    nsalt,      \* salts drawn by bcrypt.hash so far
    issued,     \* the tokens signed so far: for whom, and at which instant
    nreq,       \* requests started so far
    nwrites,    \* writes of users.json completed so far
    pc,         \* per slot: where its handler is
    req,        \* per slot: the request (route, body, bearer token)
    snap,       \* per slot: the array the route handler read
    users,      \* per slot: the handler's local array `users`
    user,       \* per slot: req.user (login: `user`), <<>> when unset
    resp,       \* per slot: the response sent, NoResp when none yet
    readAt,     \* per slot: nwrites when the route handler read the file
    wroteAt,    \* per slot: nwrites after the handler's write, 0 when none
    overwritten,\* the array the latest write of users.json replaced
    uploaded    \* per position in users.json: the sizes of the uploads answered
                \* with success for the account there, added up

vars == <<fileState, file, now, nsalt, issued, nreq, nwrites,
          pc, req, snap, users, user, resp, readAt, wroteAt, overwritten,
          uploaded>>

shared == <<fileState, file, now, nsalt, issued, nreq, nwrites, overwritten,
            uploaded>>

\* a response: the status, body.error, body.token, body.user and body.storage
\* (body.stats of the stats route); <<>> stands for a key the body lacks
NoResp == [status |-> 0, error |-> "", token |-> NoToken, user |-> <<>>,
           storage |-> <<>>]

Resp(status, error, token, view) ==
    [status |-> status, error |-> error, token |-> token, user |-> view,
     storage |-> <<>>]

Fail(status, error) == Resp(status, error, NoToken, <<>>)

\* an account registered by an earlier run of the server, at instant 0, and
\* the token that registration returned
Ana == NewUser("ana", "a@x", BcryptHash("p1", 0), 0)

AnaToken == JwtSign([userId |-> Ana.id, email |-> Ana.email], JwtSecret, 0)

\* a token an earlier run of the server signed, at instant 0, for an account
\* of a users.json that has since been replaced or removed
GoneToken == JwtSign([userId |-> ToStr(1), email |-> "z@x"], JwtSecret, 0)

\* the record of a token signed at instant t for account u
Issue(token, u, t) ==
    [token |-> token, at |-> t, userId |-> u.id, email |-> u.email]

\* the server starts with no users.json, or later with the one an earlier run
\* left
Init ==
    /\ \/ /\ fileState = "missing"
          /\ file = <<>>
          /\ nsalt = 0
          /\ issued = {}
          /\ now = 0
       \/ /\ fileState = "ok"
          /\ file = <<Ana>>
          /\ nsalt = 1
          /\ issued = {Issue(AnaToken, Ana, 0)}
          /\ now = 999
    /\ nreq = 0
    /\ nwrites = 0
    /\ pc = [p \in Procs |-> "idle"]
    /\ req = [p \in Procs |-> [route |-> "none", body |-> NoBody, token |-> NoToken]]
    /\ snap = [p \in Procs |-> <<>>]
    /\ users = [p \in Procs |-> <<>>]
    /\ user = [p \in Procs |-> <<>>]
    /\ resp = [p \in Procs |-> NoResp]
    /\ readAt = [p \in Procs |-> 0]
    /\ wroteAt = [p \in Procs |-> 0]
    /\ overwritten = <<>>
    /\ uploaded = <<>>

\* ------------------------------------------------------------ the file
\* ReadUsers that yields a seeded array when the file does not exist
ReadUsersSeeded ==
    IF fileState = "corrupt" THEN {[ok |-> FALSE, users |-> <<>>]}
    ELSE {[ok |-> TRUE, users |-> IF fileState = "missing" THEN <<Ana>> ELSE file],
          [ok |-> FALSE, users |-> <<>>]}

\* readUsers(): the parsed array, [] when the file does not exist; any other
\* failure (I/O error, JSON.parse of a file that is not whole) is thrown
ReadUsers ==
    IF fileState = "corrupt" THEN {[ok |-> FALSE, users |-> <<>>]}
    ELSE {[ok |-> TRUE, users |-> IF fileState = "missing" THEN <<>> ELSE file],
          [ok |-> FALSE, users |-> <<>>]}

\* WriteUsers keeping the accounts of the file that the array written lacks
WriteUsersMerging(us) ==
    LET old == IF fileState = "ok" THEN file ELSE <<>>
        kept == SelectSeq(old, LAMBDA a : \A i \in Indexes(us) : us[i].id # a.id)
    IN  {[ok |-> TRUE, fileState |-> "ok", file |-> us \o kept],
         [ok |-> FALSE, fileState |-> fileState, file |-> file],
         [ok |-> FALSE, fileState |-> "corrupt", file |-> <<>>]}

\* writeUsers(users): fs.writeFile replaces the file; when it fails the file
\* is as it was (the open failed) or truncated (the write failed)
WriteUsers(us) ==
    {[ok |-> TRUE, fileState |-> "ok", file |-> us],
     [ok |-> FALSE, fileState |-> fileState, file |-> file],
     [ok |-> FALSE, fileState |-> "corrupt", file |-> <<>>]}

\* the array a read of the file yields now
Stored == IF fileState = "ok" THEN file ELSE <<>>

\* ---------------------------------------------------------- small steps
NoRequest == [route |-> "none", body |-> NoBody, token |-> NoToken]

\* no response is on its way out
Quiet == \A p \in Procs : pc[p] # "done"

\* the handler in slot p is at label
At(p, label) == Quiet /\ pc[p] = label

\* a new request takes the first free slot
Begin(p, r) ==
    /\ At(p, "idle")
    /\ \A q \in Procs : q < p => pc[q] # "idle"
    /\ nreq' = nreq + 1
    /\ req' = [req EXCEPT ![p] = r]
    /\ UNCHANGED <<snap, users, user, readAt, wroteAt>>

\* the response has gone out and the handler has returned: its locals are gone
Release(p) ==
    /\ pc[p] = "done"
    /\ pc' = [pc EXCEPT ![p] = "idle"]
    /\ req' = [req EXCEPT ![p] = NoRequest]
    /\ snap' = [snap EXCEPT ![p] = <<>>]
    /\ users' = [users EXCEPT ![p] = <<>>]
    /\ user' = [user EXCEPT ![p] = <<>>]
    /\ resp' = [resp EXCEPT ![p] = NoResp]
    /\ readAt' = [readAt EXCEPT ![p] = 0]
    /\ wroteAt' = [wroteAt EXCEPT ![p] = 0]
    /\ UNCHANGED shared

Goto(p, label) ==
    /\ pc' = [pc EXCEPT ![p] = label]
    /\ resp' = [resp EXCEPT ![p] = NoResp]

Reply(p, r) ==
    /\ pc' = [pc EXCEPT ![p] = "done"]
    /\ resp' = [resp EXCEPT ![p] = r]

\* the clock moves on
Tick ==
    /\ Quiet
    /\ \E t \in Instants : t > now /\ now' = t
    /\ UNCHANGED <<fileState, file, nsalt, issued, nreq, nwrites, overwritten,
                   uploaded, pc, req, snap, users, user, resp, readAt, wroteAt>>

\* ------------------------------------------- POST /api/auth/register
\* lines 44-52: the body is validated, then readUsers() is awaited
StartRegister(p, max) ==
    /\ nreq < max
    /\ \E body \in RegisterBodies :
        /\ Begin(p, [route |-> "register", body |-> body, token |-> NoToken])
        /\ IF body.username = "" \/ body.email = "" \/ body.password = ""
           THEN Reply(p, Fail(400, "Todos os campos sao obrigatorios"))
           ELSE Goto(p, "reg_read")
    /\ UNCHANGED <<fileState, file, now, nsalt, issued, nwrites, overwritten,
                   uploaded>>

\* lines 52-61: the array is read, a duplicate is refused, bcrypt.hash is awaited
RegRead(p) ==
    /\ At(p, "reg_read")
    /\ \E r \in ReadUsers :
        IF ~r.ok
        THEN /\ Reply(p, Fail(500, "Erro interno do servidor"))
             /\ UNCHANGED <<snap, users, readAt>>
        ELSE /\ snap' = [snap EXCEPT ![p] = r.users]
             /\ users' = [users EXCEPT ![p] = r.users]
             /\ readAt' = [readAt EXCEPT ![p] = nwrites]
             /\ IF ExistingUser(r.users, req[p].body.email, req[p].body.username) # {}
                THEN Reply(p, Fail(409, "Usuario ou email ja cadastrado"))
                ELSE Goto(p, "reg_hash")
    /\ UNCHANGED <<shared, req, user, wroteAt>>

\* lines 61-82: the hash is there, newUser is built and pushed, writeUsers is awaited
RegHash(p) ==
    /\ At(p, "reg_hash")
    /\ users' = [users EXCEPT ![p] =
          Append(@, NewUser(req[p].body.username, req[p].body.email,
                            BcryptHash(req[p].body.password, nsalt), now))]
    /\ nsalt' = nsalt + 1
    /\ Goto(p, "reg_write")
    /\ UNCHANGED <<fileState, file, now, issued, nreq, nwrites, overwritten,
                   uploaded, req, snap, user, readAt, wroteAt>>

\* lines 82-97: the file is written, the token signed, 201 sent
RegWrite(p) ==
    /\ At(p, "reg_write")
    /\ \E w \in WriteUsers(users[p]) :
        /\ fileState' = w.fileState
        /\ file' = w.file
        /\ overwritten' = IF w.ok THEN Stored ELSE overwritten
        /\ IF ~w.ok
           THEN /\ Reply(p, Fail(500, "Erro interno do servidor"))
                /\ UNCHANGED <<issued, nwrites, wroteAt>>
           ELSE LET newUser == users[p][Len(users[p])]
                    token == JwtSign([userId |-> newUser.id, email |-> newUser.email],
                                     JwtSecret, now)
                IN  /\ nwrites' = nwrites + 1
                    /\ wroteAt' = [wroteAt EXCEPT ![p] = nwrites + 1]
                    /\ issued' = issued \cup {Issue(token, newUser, now)}
                    /\ Reply(p, Resp(201, "", token, <<Sanitize(newUser)>>))
    /\ UNCHANGED <<now, nsalt, nreq, uploaded, req, snap, users, user, readAt>>

\* ---------------------------------------------- POST /api/auth/login
\* lines 107-114
StartLogin(p, max) ==
    /\ nreq < max
    /\ \E body \in LoginBodies :
        /\ Begin(p, [route |-> "login", body |-> body, token |-> NoToken])
        /\ IF body.email = "" \/ body.password = ""
           THEN Reply(p, Fail(400, "Email e senha sao obrigatorios"))
           ELSE Goto(p, "login_read")
    /\ UNCHANGED <<fileState, file, now, nsalt, issued, nwrites, overwritten,
                   uploaded>>

\* lines 114-123: the account is looked up by email, bcrypt.compare is awaited
LoginRead(p) ==
    /\ At(p, "login_read")
    /\ \E r \in ReadUsers :
        IF ~r.ok
        THEN /\ Reply(p, Fail(500, "Erro interno do servidor"))
             /\ UNCHANGED <<snap, users, user, readAt>>
        ELSE LET i == FindByEmail(r.users, req[p].body.email)
             IN  /\ snap' = [snap EXCEPT ![p] = r.users]
                 /\ users' = [users EXCEPT ![p] = r.users]
                 /\ readAt' = [readAt EXCEPT ![p] = nwrites]
                 /\ IF i = 0
                    THEN /\ Reply(p, Fail(401, "Credenciais invalidas"))
                         /\ UNCHANGED user
                    ELSE /\ user' = [user EXCEPT ![p] = <<r.users[i]>>]
                         /\ Goto(p, "login_compare")
    /\ UNCHANGED <<shared, req, wroteAt>>

\* lines 123-141: the password is compared, the token signed, 200 sent
LoginCompare(p) ==
    /\ At(p, "login_compare")
    /\ LET u == user[p][1]
           token == JwtSign([userId |-> u.id, email |-> u.email], JwtSecret, now)
       IN  IF ~BcryptCompare(req[p].body.password, u.password)
           THEN /\ Reply(p, Fail(401, "Credenciais invalidas"))
                /\ UNCHANGED issued
           ELSE /\ issued' = issued \cup {Issue(token, u, now)}
                /\ Reply(p, Resp(200, "", token, <<Sanitize(u)>>))
    /\ UNCHANGED <<fileState, file, now, nsalt, nreq, nwrites, overwritten,
                   uploaded, req, snap, users, user, readAt, wroteAt>>

\* ------------------------------------------------ authenticateToken
\* the bearer tokens a client may present: none, garbage, a token the server
\* issued (in this run or an earlier one), such a token edited, a token signed
\* with another key
IssuedTokens == {x.token : x \in issued}

Presentable ==
    {NoToken, Malformed, GoneToken} \cup IssuedTokens
        \cup {Tamper(t) : t \in IssuedTokens} \cup {Forge(t) : t \in IssuedTokens}

\* lines 150-163: the token is taken from the header and verified, then
\* readUsers() is awaited
Authenticate(p, max, r) ==
    /\ nreq < max
    /\ Begin(p, r)
    /\ IF r.token.kind = "none"
       THEN Reply(p, Fail(401, "Token nao fornecido"))
       ELSE IF JwtVerify(r.token, JwtSecret, now) # "ok"
       THEN Reply(p, Fail(401, "Token invalido"))
       ELSE Goto(p, "auth_read")
    /\ UNCHANGED <<fileState, file, now, nsalt, issued, nwrites, overwritten,
                   uploaded>>

\* Math.round((used / limit) * 100)
Percentage(used, limit) == (200 * used + limit) \div (2 * limit)

Storage(u) ==
    <<[used |-> u.storageUsed, limit |-> u.storageLimit,
       percentage |-> Percentage(u.storageUsed, u.storageLimit)]>>

\* what the route handler does with req.user = u before its first await:
\* the GET routes answer; PUT profile and upload go on to read the file
Route(p, u) ==
    LET r == req[p]
    IN  CASE r.route \in {"verify", "getProfile"} ->
               Reply(p, Resp(200, "", NoToken, <<Sanitize(u)>>))
          [] r.route = "stats" ->
               Reply(p, [Resp(200, "", NoToken, <<>>) EXCEPT !.storage = Storage(u)])
          [] r.route = "files" ->
               Reply(p, Resp(200, "", NoToken, <<>>))
          [] r.route = "putProfile" ->
               Goto(p, "prof_read")
          [] r.route = "upload" ->
               IF r.body.filename = "" \/ r.body.size = 0
               THEN Reply(p, Fail(400, "Nome do arquivo e tamanho sao obrigatorios"))
               ELSE Goto(p, "up_read")

\* lines 163-171: the account of the token's userId is looked up; next()
AuthRead(p) ==
    /\ At(p, "auth_read")
    /\ \E r \in ReadUsers :
        IF ~r.ok
        THEN /\ Reply(p, Fail(500, "Erro ao verificar usuario"))
             /\ UNCHANGED user
        ELSE LET i == FindById(r.users, req[p].token.payload.userId)
             IN  IF i = 0
                 THEN /\ Reply(p, Fail(401, "Usuario nao encontrado"))
                      /\ UNCHANGED user
                 ELSE /\ user' = [user EXCEPT ![p] = <<r.users[i]>>]
                      /\ Route(p, r.users[i])
    /\ UNCHANGED <<shared, req, snap, users, readAt, wroteAt>>

\* GET /api/auth/verify, /api/user/profile, /api/user/stats, /api/files
StartGet(p, max) ==
    \E route \in GetRoutes, t \in Presentable :
        Authenticate(p, max, [route |-> route, body |-> NoBody, token |-> t])

\* ---------------------------------------------- PUT /api/user/profile
StartPutProfile(p, max) ==
    \E body \in Patches, t \in Presentable :
        Authenticate(p, max, [route |-> "putProfile", body |-> body, token |-> t])

\* lines 193-209: the array is read, the permitted keys are copied onto the
\* caller's account, writeUsers is awaited
ProfRead(p) ==
    /\ At(p, "prof_read")
    /\ \E r \in ReadUsers :
        IF ~r.ok
        THEN /\ Reply(p, Fail(500, "Erro ao atualizar perfil"))
             /\ UNCHANGED <<snap, users, readAt>>
        ELSE LET userIndex == FindById(r.users, user[p][1].id)
             IN  /\ snap' = [snap EXCEPT ![p] = r.users]
                 /\ readAt' = [readAt EXCEPT ![p] = nwrites]
                 /\ IF userIndex = 0
                    THEN /\ Reply(p, Fail(404, "Usuario nao encontrado"))
                         /\ users' = [users EXCEPT ![p] = r.users]
                    ELSE /\ users' = [users EXCEPT ![p] =
                               [r.users EXCEPT ![userIndex] =
                                   ApplyUpdate(@, req[p].body)]]
                         /\ Goto(p, "prof_write")
    /\ UNCHANGED <<shared, req, user, wroteAt>>

\* lines 209-215
ProfWrite(p) ==
    /\ At(p, "prof_write")
    /\ \E w \in WriteUsers(users[p]) :
        /\ fileState' = w.fileState
        /\ file' = w.file
        /\ overwritten' = IF w.ok THEN Stored ELSE overwritten
        /\ IF ~w.ok
           THEN /\ Reply(p, Fail(500, "Erro ao atualizar perfil"))
                /\ UNCHANGED <<nwrites, wroteAt>>
           ELSE LET userIndex == FindById(snap[p], user[p][1].id)
                IN  /\ nwrites' = nwrites + 1
                    /\ wroteAt' = [wroteAt EXCEPT ![p] = nwrites + 1]
                    /\ Reply(p, Resp(200, "", NoToken,
                                     <<Sanitize(users[p][userIndex])>>))
    /\ UNCHANGED <<now, nsalt, issued, nreq, uploaded, req, snap, users, user, readAt>>

\* ------------------------------------------- POST /api/files/upload
StartUpload(p, max) ==
    \E body \in UploadBodies, t \in Presentable :
        Authenticate(p, max, [route |-> "upload", body |-> body, token |-> t])

\* lines 244-258: the array is read, the new size is checked against the
\* limit and stored in the local array, writeUsers is awaited
UpRead(p) ==
    /\ At(p, "up_read")
    /\ \E r \in ReadUsers :
        IF ~r.ok
        THEN /\ Reply(p, Fail(500, "Erro ao fazer upload"))
             /\ UNCHANGED <<snap, users, readAt>>
        ELSE LET userIndex == FindById(r.users, user[p][1].id)
                 newSize == r.users[userIndex].storageUsed + ParseInt(req[p].body.size)
             IN  /\ snap' = [snap EXCEPT ![p] = r.users]
                 /\ readAt' = [readAt EXCEPT ![p] = nwrites]
                 /\ IF userIndex = 0
                    THEN /\ Reply(p, Fail(404, "Usuario nao encontrado"))
                         /\ users' = [users EXCEPT ![p] = r.users]
                    ELSE IF QuotaExceeded(newSize, r.users[userIndex].storageLimit)
                    THEN /\ Reply(p, Fail(400, "Limite de armazenamento excedido"))
                         /\ users' = [users EXCEPT ![p] = r.users]
                    ELSE /\ users' = [users EXCEPT ![p] =
                               [r.users EXCEPT ![userIndex].storageUsed = newSize]]
                         /\ Goto(p, "up_write")
    /\ UNCHANGED <<shared, req, user, wroteAt>>

\* the upload log after an upload of size was answered with success for the
\* account at position i
Credit(up, i, size) ==
    [j \in 1..(IF i > Len(up) THEN i ELSE Len(up)) |->
        (IF j <= Len(up) THEN up[j] ELSE 0) + (IF j = i THEN size ELSE 0)]

\* lines 258-274
UpWrite(p) ==
    /\ At(p, "up_write")
    /\ \E w \in WriteUsers(users[p]) :
        /\ fileState' = w.fileState
        /\ file' = w.file
        /\ overwritten' = IF w.ok THEN Stored ELSE overwritten
        /\ IF ~w.ok
           THEN /\ Reply(p, Fail(500, "Erro ao fazer upload"))
                /\ UNCHANGED <<nwrites, wroteAt, uploaded>>
           ELSE LET userIndex == FindById(snap[p], user[p][1].id)
                IN  /\ nwrites' = nwrites + 1
                    /\ wroteAt' = [wroteAt EXCEPT ![p] = nwrites + 1]
                    /\ uploaded' = Credit(uploaded, userIndex, req[p].body.size)
                    /\ Reply(p, [Resp(200, "", NoToken, <<>>) EXCEPT
                                    !.storage = Storage(users[p][userIndex])])
    /\ UNCHANGED <<now, nsalt, issued, nreq, req, snap, users, user, readAt>>

\* ------------------------------------------------------ specifications
\* handlers of different requests interleave at their awaits
Next ==
    \/ Tick
    \/ \E p \in Procs :
        \/ StartRegister(p, MaxRequests)
        \/ StartLogin(p, MaxRequests)
        \/ StartGet(p, MaxRequests)
        \/ StartPutProfile(p, MaxRequests)
        \/ StartUpload(p, MaxRequests)
        \/ RegRead(p) \/ RegHash(p) \/ RegWrite(p)
        \/ LoginRead(p) \/ LoginCompare(p)
        \/ AuthRead(p)
        \/ ProfRead(p) \/ ProfWrite(p)
        \/ UpRead(p) \/ UpWrite(p)
        \/ Release(p)

Spec == Init /\ [][Next]_vars

\* every request completes before the next one starts
SeqNext ==
    \/ Tick
    \/ StartRegister(1, MaxSeqRequests)
    \/ StartLogin(1, MaxSeqRequests)
    \/ StartGet(1, MaxSeqRequests)
    \/ StartPutProfile(1, MaxSeqRequests)
    \/ StartUpload(1, MaxSeqRequests)
    \/ RegRead(1) \/ RegHash(1) \/ RegWrite(1)
    \/ LoginRead(1) \/ LoginCompare(1)
    \/ AuthRead(1)
    \/ ProfRead(1) \/ ProfWrite(1)
    \/ UpRead(1) \/ UpWrite(1)
    \/ Release(1)

SeqSpec == Init /\ [][SeqNext]_vars

\* ================================================================ claims
Done(p) == pc[p] = "done"

Wrote(p) == wroteAt[p] > 0

\* C1: a registration with all three fields that meets no I/O failure answers 409 and writes
\* nothing when an account of the array it read has its email or its username;
\* otherwise it answers 201 and writes the array it read plus exactly one
\* account, with that username and email, storageUsed 0 and the 1 TiB limit.
RegisterContract ==
    \A p \in Procs :
        (Done(p) /\ req[p].route = "register"
                 /\ req[p].body.username # "" /\ req[p].body.email # ""
                 /\ req[p].body.password # "" /\ resp[p].status # 500) =>
            LET b == req[p].body
                n == Len(snap[p])
            IN  IF \E i \in 1..n :
                       snap[p][i].email = b.email \/ snap[p][i].username = b.username
                THEN /\ resp[p].status = 409
                     /\ ~Wrote(p)
                     /\ users[p] = snap[p]
                ELSE /\ resp[p].status = 201
                     /\ Wrote(p)
                     /\ file = users[p]
                     /\ Len(users[p]) = n + 1
                     /\ SubSeq(users[p], 1, n) = snap[p]
                     /\ users[p][n + 1].username = b.username
                     /\ users[p][n + 1].email = b.email
                     /\ users[p][n + 1].storageUsed = 0
                     /\ users[p][n + 1].storageLimit = StorageLimit

\* a registration refused because only its username is taken
RegisterContractWitness ==
    \E p \in Procs :
        /\ Done(p) /\ req[p].route = "register" /\ resp[p].status = 409
        /\ \A i \in Indexes(snap[p]) : snap[p][i].email # req[p].body.email
        /\ \E i \in Indexes(snap[p]) : snap[p][i].username = req[p].body.username

\* the caller's account in the array the upload or profile handler read
Caller(p) == FindById(snap[p], user[p][1].id)

UploadContractWitness ==
    \E p \in Procs :
        /\ Done(p) /\ req[p].route = "upload" /\ Wrote(p)
        /\ file[Caller(p)].storageUsed = file[Caller(p)].storageLimit

StorageUsedNonNegative ==
    \A i \in Indexes(Stored) : Stored[i].storageUsed >= 0

\* C4: every stored account has storageUsed <= storageLimit, under every
\* interleaving of the handlers' reads and writes.
StorageWithinLimit ==
    \A i \in Indexes(Stored) : Stored[i].storageUsed <= Stored[i].storageLimit

\* two uploads on one account read the same storageUsed, each fits the quota
\* alone, the two together do not, and both were written
StorageWithinLimitWitness ==
    \E p \in Procs :
        /\ Done(p) /\ req[p].route = "upload" /\ Wrote(p)
        /\ wroteAt[p] = readAt[p] + 2
        /\ Len(overwritten) = Len(snap[p])
        /\ LET i == Caller(p)
               first == overwritten[i].storageUsed - snap[p][i].storageUsed
           IN  /\ first > 0
               /\ req[p].body.size > 0
               /\ snap[p][i].storageUsed + first + req[p].body.size
                     > snap[p][i].storageLimit

FrameKeys == {"id", "password", "storageUsed", "storageLimit", "createdAt", "isActive"}

\* C5: the array a profile update writes differs from the array it read only
\* in the caller's username, email and settings, which take the patch's value
\* where the patch has the key.
ProfileFrame ==
    \A p \in Procs :
        (Done(p) /\ req[p].route = "putProfile" /\ Wrote(p)) =>
            LET i == Caller(p)
                body == req[p].body
            IN  /\ file = users[p]
                /\ Len(users[p]) = Len(snap[p])
                /\ \A j \in Indexes(snap[p]) : j # i => users[p][j] = snap[p][j]
                /\ \A k \in FrameKeys : users[p][i][k] = snap[p][i][k]
                /\ \A k \in AllowedUpdates :
                      users[p][i][k] = IF k \in DOMAIN body THEN body[k]
                                       ELSE snap[p][i][k]

\* a patch with keys that are not permitted was applied next to another account
ProfileFrameWitness ==
    \E p \in Procs :
        /\ Done(p) /\ req[p].route = "putProfile" /\ Wrote(p)
        /\ "password" \in DOMAIN req[p].body
        /\ users[p][Caller(p)].email # snap[p][Caller(p)].email
        /\ Len(snap[p]) > 1

\* C6: an account that users.json holds is held (same id) by every later
\* content of users.json.
AccountsPersist ==
    [][(fileState = "ok" /\ fileState' = "ok") =>
          \A i \in Indexes(file) : \E j \in Indexes(file') : file'[j].id = file[i].id]_vars

\* C7: when a handler writes after another write landed between its read and
\* its write, it answers with success like every handler that wrote, and
\* users.json then holds its change applied to the array it read: nothing of
\* what was written in between is kept.
LostUpdate ==
    \A q \in Procs :
        /\ (Done(q) /\ Wrote(q)) => resp[q].status \in {200, 201}
        /\ (Done(q) /\ Wrote(q) /\ wroteAt[q] > readAt[q] + 1) =>
              LET n == Len(snap[q])
                  size == req[q].body.size
              IN  /\ file = users[q]
                  /\ CASE req[q].route = "register" ->
                            /\ Len(file) = n + 1
                            /\ SubSeq(file, 1, n) = snap[q]
                            /\ file[n + 1].email = req[q].body.email
                       [] req[q].route = "upload" ->
                            file = [snap[q] EXCEPT ![Caller(q)].storageUsed = @ + size]
                       [] req[q].route = "putProfile" ->
                            /\ Len(file) = n
                            /\ \A j \in 1..n : j # Caller(q) => file[j] = snap[q][j]
                            /\ \A k \in FrameKeys :
                                  file[Caller(q)][k] = snap[q][Caller(q)][k]

\* a handler has overwritten what another one wrote to a different account
\* after its read: that account is back to what the handler read, or gone
LostUpdateWitness ==
    \E q \in Procs :
        /\ Done(q) /\ Wrote(q) /\ wroteAt[q] = readAt[q] + 2
        /\ \E j \in Indexes(overwritten) :
              /\ j > Len(snap[q]) \/ (j # Caller(q) /\ overwritten[j] # snap[q][j])
              /\ j > Len(file) \/ file[j] # overwritten[j]

\* C8: a token the server issued, while unexpired, names an account that
\* authenticateToken finds in users.json.
TokensStayAccepted ==
    \A x \in issued :
        (fileState # "corrupt" /\ JwtVerify(x.token, JwtSecret, now) = "ok") =>
            FindById(Stored, x.token.payload.userId) # 0

ProtectedRoutes == GetRoutes \cup {"putProfile", "upload"}

\* C9 as claimed: an issued token verifies at any time before issuance + 7
\* days, and not at any time after issuance + 7 days.
TokenValidSevenDays ==
    \A x \in issued :
        /\ now < x.at + ExpiresIn * MsPerSec =>
              JwtVerify(x.token, JwtSecret, now) = "ok"
        /\ now > x.at + ExpiresIn * MsPerSec =>
              JwtVerify(x.token, JwtSecret, now) # "ok"

\* C9 as amended: an issued token carries the id and email it was issued for
\* and verifies exactly while the clock's whole second is below the whole
\* second of issuance + 604800; a request to a protected route whose token
\* does not verify gets 401 before req.user is set or the file is read.
TokenLifetime ==
    /\ [](\A x \in issued :
            /\ x.token.payload.userId = x.userId
            /\ x.token.payload.email = x.email
            /\ JwtVerify(x.token, JwtSecret, now) = "ok"
                  <=> (now \div MsPerSec) < (x.at \div MsPerSec) + ExpiresIn)
    /\ [][\A p \in Procs :
            (pc[p] = "idle" /\ pc'[p] # "idle"
                /\ req'[p].route \in ProtectedRoutes
                /\ req'[p].token.kind # "none"
                /\ JwtVerify(req'[p].token, JwtSecret, now) # "ok") =>
                    /\ pc'[p] = "done"
                    /\ resp'[p].status = 401
                    /\ user'[p] = <<>>
                    /\ snap'[p] = <<>>]_vars

\* an issued token is refused less than 7 days after it was issued
TokenLifetimeWitness ==
    \E p \in Procs, x \in issued :
        /\ Done(p) /\ req[p].route \in ProtectedRoutes
        /\ req[p].token = x.token
        /\ now < x.at + ExpiresIn * MsPerSec
        /\ resp[p].status = 401 /\ resp[p].error = "Token invalido"

\* C10: a login with the current email of a stored account and the password
\* it was registered with answers 200 with a token for that account's id.
LoginSucceeds ==
    \A p \in Procs :
        (Done(p) /\ req[p].route = "login" /\ resp[p].status # 500) =>
            \A i \in Indexes(Stored) :
                (/\ Stored[i].email = req[p].body.email
                 /\ BcryptCompare(req[p].body.password, Stored[i].password)) =>
                    /\ resp[p].status = 200
                    /\ resp[p].token.kind = "jwt"
                    /\ resp[p].token.payload.userId = Stored[i].id

\* C11: a login whose email no account of the array read has, and a login
\* whose email is there with a password that does not match, get the same
\* response, 401 with error 'Credenciais invalidas' and no token; no step of a
\* login changes users.json, and a refused login signs no token.
LoginRefusal ==
    /\ [](\A p \in Procs :
            (Done(p) /\ req[p].route = "login"
                     /\ req[p].body.email # "" /\ req[p].body.password # ""
                     /\ resp[p].status # 500
                     /\ LET i == FindByEmail(snap[p], req[p].body.email)
                        IN  \/ i = 0
                            \/ snap[p][i].password #
                                  BcryptHash(req[p].body.password,
                                             snap[p][i].password.salt)) =>
                /\ resp[p] = Fail(401, "Credenciais invalidas")
                /\ ~Wrote(p))
    /\ [][\A p \in Procs :
            (pc[p] # "done" /\ pc'[p] # pc[p] /\ req'[p].route = "login") =>
                /\ fileState' = fileState
                /\ file' = file
                /\ resp'[p].status = 401 => issued' = issued]_vars

\* a login with the email of a stored account and another password was refused
LoginRefusalWitness ==
    \E p \in Procs :
        /\ Done(p) /\ req[p].route = "login" /\ resp[p].status = 401
        /\ FindByEmail(snap[p], req[p].body.email) # 0
        /\ Stored = snap[p]

AccountKeys == {"id", "username", "email", "password", "storageUsed",
                "storageLimit", "createdAt", "isActive", "settings"}

ViewRoutes == {"register", "login", "verify", "getProfile", "putProfile"}

\* C12: the account view in a response has every key of an account except
\* password, whatever the patch of a profile update holds; a successful
\* response of register, login, verify, GET profile and PUT profile carries
\* such a view, and a token's payload holds only userId, email, iat and exp.
NoPasswordInResponses ==
    \A p \in Procs :
        /\ resp[p].user # <<>> =>
              /\ "password" \notin DOMAIN resp[p].user[1]
              /\ DOMAIN resp[p].user[1] = AccountKeys \ {"password"}
        /\ (Done(p) /\ req[p].route \in ViewRoutes /\ resp[p].status \in {200, 201}) =>
              resp[p].user # <<>>
        /\ resp[p].token.kind = "jwt" =>
              DOMAIN resp[p].token.payload = {"userId", "email", "iat", "exp"}

\* a profile update whose patch names password was answered with the view
NoPasswordInResponsesWitness ==
    \E p \in Procs :
        /\ Done(p) /\ req[p].route = "putProfile" /\ resp[p].status = 200
        /\ "password" \in DOMAIN req[p].body
        /\ resp[p].user # <<>>

\* C13: no two accounts of users.json have the same id, and the array a
\* handler builds keeps the id of every account it read; ids are the clock
\* values read at creation, and the clock need not have moved between two
\* registrations.
IdsUniqueImmutable ==
    /\ \A i, j \in Indexes(Stored) : i # j => Stored[i].id # Stored[j].id
    /\ \A p \in Procs : \A i \in Indexes(snap[p]) :
          i <= Len(users[p]) => users[p][i].id = snap[p][i].id

\* C14: the array a successful registration writes holds the new account
\* last, and no other account of that array has its email or its username,
\* whatever was written to users.json between the registration's read and its
\* write.
RegistrationUnique ==
    \A p \in Procs :
        (Done(p) /\ req[p].route = "register" /\ resp[p].status = 201) =>
            LET n == Len(file)
            IN  /\ Wrote(p)
                /\ file = users[p]
                /\ file[n].email = req[p].body.email
                /\ file[n].username = req[p].body.username
                /\ \A i \in 1..(n - 1) :
                      /\ file[i].email # file[n].email
                      /\ file[i].username # file[n].username

\* a registration was written after another handler had given the new
\* account's email to a stored account
RegistrationUniqueWitness ==
    \E p \in Procs :
        /\ Done(p) /\ req[p].route = "register" /\ resp[p].status = 201
        /\ wroteAt[p] = readAt[p] + 2
        /\ \E i \in Indexes(overwritten) : overwritten[i].email = req[p].body.email

UniqueKeys == {"username", "email"}

\* C15: a profile update that finds the caller and meets no I/O failure
\* answers 200 and writes; when its patch sets email or username to the value
\* another account of the array read has, users.json then holds two accounts
\* with that value.
ProfileUpdateDuplicates ==
    \A p \in Procs :
        (Done(p) /\ req[p].route = "putProfile" /\ user[p] # <<>>
                 /\ resp[p].status \notin {404, 500}) =>
            /\ resp[p].status = 200
            /\ Wrote(p)
            /\ \A k \in UniqueKeys :
                  (/\ k \in DOMAIN req[p].body
                   /\ \E j \in Indexes(snap[p]) :
                         j # Caller(p) /\ snap[p][j][k] = req[p].body[k]) =>
                      \E i, j \in Indexes(file) :
                          /\ i # j
                          /\ file[i][k] = req[p].body[k]
                          /\ file[j][k] = req[p].body[k]

\* a profile update gave the caller the email of another account
ProfileUpdateDuplicatesWitness ==
    \E p \in Procs :
        /\ Done(p) /\ req[p].route = "putProfile" /\ resp[p].status = 200
        /\ Wrote(p) /\ "email" \in DOMAIN req[p].body
        /\ snap[p][Caller(p)].email # req[p].body.email
        /\ \E j \in Indexes(file) :
              j # Caller(p) /\ file[j].email = file[Caller(p)].email

\* the request of slot p was turned away by authenticateToken: 401, req.user
\* not set, the route handler not entered
Refused(p) ==
    /\ pc[p] = "done"
    /\ resp[p].status = 401
    /\ resp[p].token = NoToken /\ resp[p].user = <<>> /\ resp[p].storage = <<>>
    /\ user[p] = <<>> /\ snap[p] = <<>> /\ users[p] = <<>>
    /\ ~Wrote(p)

\* C16: a request to a protected route with no token, with a token that does
\* not verify (invalid or expired), or with a token that verifies while the
\* array authenticateToken reads holds no account with its userId, is answered
\* 401 without the route handler being entered, and users.json is left as it
\* was.
ProtectedRefusal ==
    [][\A p \in Procs :
          /\ (pc[p] = "idle" /\ pc'[p] # "idle"
                 /\ req'[p].route \in ProtectedRoutes
                 /\ \/ req'[p].token.kind = "none"
                    \/ JwtVerify(req'[p].token, JwtSecret, now) # "ok") =>
                /\ Refused(p)'
                /\ fileState' = fileState /\ file' = file
          /\ (pc[p] = "auth_read" /\ pc'[p] # "auth_read"
                 /\ resp'[p].status # 500
                 /\ \A i \in Indexes(Stored) :
                       Stored[i].id # req[p].token.payload.userId) =>
                /\ Refused(p)'
                /\ fileState' = fileState /\ file' = file]_vars

\* a token that verifies named no account of a users.json that holds accounts
ProtectedRefusalWitness ==
    \E p \in Procs :
        /\ Done(p) /\ req[p].route \in ProtectedRoutes
        /\ resp[p] = Fail(401, "Usuario nao encontrado")
        /\ Stored # <<>>

\* C17: the step in which a handler answers 500 (a read or a write of
\* users.json has failed) signs no token and leaves users.json as it was; the
\* handler has written nothing before, so users.json is as when the request
\* started.
IoFailureContract ==
    [][\A p \in Procs :
          (pc[p] # "done" /\ pc'[p] = "done" /\ resp'[p].status = 500) =>
              /\ resp'[p].token = NoToken
              /\ issued' = issued
              /\ fileState' = fileState
              /\ file' = file]_vars

\* C18: while users.json does not exist, a read that does not fail makes a
\* login answer 401, makes authenticateToken answer 401, and lets a valid
\* registration pass the duplicate test with an empty array; the write of that
\* registration, when it does not fail, answers 201 and creates users.json
\* with exactly the new account.
MissingFileIsEmpty ==
    [][\A p \in Procs :
          (fileState = "missing" /\ pc'[p] # pc[p] /\ resp'[p].status # 500) =>
              /\ pc[p] = "login_read" =>
                    /\ pc'[p] = "done"
                    /\ resp'[p] = Fail(401, "Credenciais invalidas")
              /\ pc[p] = "auth_read" =>
                    /\ pc'[p] = "done"
                    /\ resp'[p] = Fail(401, "Usuario nao encontrado")
              /\ pc[p] = "reg_read" =>
                    /\ pc'[p] = "reg_hash"
                    /\ users'[p] = <<>>
              /\ pc[p] = "reg_write" =>
                    /\ pc'[p] = "done"
                    /\ resp'[p].status = 201
                    /\ fileState' = "ok"
                    /\ Len(file') = 1
                    /\ file'[1].username = req[p].body.username
                    /\ file'[1].email = req[p].body.email
                    /\ resp'[p].user = <<Sanitize(file'[1])>>]_vars

\* a registration met no users.json and created it with its one account
MissingFileIsEmptyWitness ==
    \E p \in Procs :
        /\ Done(p) /\ req[p].route = "register" /\ resp[p].status = 201
        /\ snap[p] = <<>>
        /\ fileState = "ok" /\ Len(file) = 1 /\ overwritten = <<>>

====
